---- MODULE Spec2Model ----
(***************************************************************************)
(* A model of mk20d7-hal: the I2C0 interrupt-driven master engine          *)
(* (src/src/i2c.rs), the baud divider search find_freq (src/src/i2c.rs)    *)
(* the Multipurpose Clock Generator sequencer (src/src/mcg.rs) and the    *)
(* SysTick delay (src/src/delay.rs).                                       *)
(*                                                                         *)
(* Register writes follow the svd2rust API the code uses: reg.write(|w| ..)*)
(* starts from the register's reset value and stores the whole register,   *)
(* so every field the closure does not name returns to its reset value.    *)
(* The code never uses modify().                                           *)
(***************************************************************************)
EXTENDS Integers, Sequences, FiniteSets, TLC

VARIABLES
    \* ---- I2C0 peripheral registers
    c1,        \* I2C0_C1: [iicen, iicie, mst, tx, txak]
    s,         \* I2C0_S:  [iicif, rxak]
    d,         \* I2C0_D:  the data register's current byte
    \* ---- I2C0_STATE and the foreground call
    slot,      \* the Move cell: [st, mode, len, status, owner]
    pc,        \* position of the foreground inside write/read
    callNo,    \* number of write/read calls started so far
    args,      \* arguments of the current call: [mode, addr]
    buf,       \* the current call's buffer (the caller's memory)
    flags,     \* flags[k]: the AtomicBool `done` of call k
    fatal,     \* "none", or the panic that halted the core
    \* ---- history variables of the I2C engine
    dLog,      \* bytes written to I2C0_D since the last install
    irqs,      \* handler runs that locked the slot since the last install
    doneAt,    \* value of irqs when the owner's flag was first stored (0: not yet)
    nack,      \* a handler run after the address step found RXAK set
    stale,     \* the handler dereferenced a pointer of a call that had ended
    tick,      \* flips at every entry of the handler
    \* ---- find_freq
    ffTarget, ffBus, ffOut,
    \* ---- Multipurpose Clock Generator
    mc1,       \* MCG_C1: [clks, frdiv, irefs]
    mc2,       \* MCG_C2: [range0, erefs0, lp]
    mc4,       \* MCG_C4: [drst_drs, dmx32]
    mc5,       \* MCG_C5: [prdiv0]
    mc6,       \* MCG_C6: [plls, vdiv0]
    mc7,       \* MCG_C7: [oscsel]
    ms,        \* MCG_S:  [oscinit0, irefst, clkst, pllst, lock0]
    crystal,   \* external_crystal_frequency, MHz
    handle,    \* what the caller holds: "Mcg" or a mode handle
    todo,      \* the register operations the current call still has to make
    mpc,       \* the polling loop the current operation is in, or "idle"
    mfatal,    \* "none", or the panic message
    rawOps,    \* history: a register operation was called on the generator itself
    lastMode,  \* history: the latest clock mode the registers have represented
    \* ---- one call of a function on chosen arguments
    argA, argB,   \* the arguments
    ret,          \* the value returned (or the panic marker), RetNone before the call
    \* ---- SysTick delay (src/src/delay.rs)
    delayUs,      \* the argument us of delay_us, a u32 as <<high half, low half>>
    delayCore,    \* the core frequency delay_us multiplies by
    delayPc,      \* "idle", "wait" (the has_wrapped loop), "done"
    delayOut,     \* "none", "Ok", "InvalidDelay" or "panic"
    systReload,   \* SYST_RVR (24 bits), as <<high half, low half>>
    systEnable,   \* SYST_CSR.ENABLE
    systFlag      \* SYST_CSR.COUNTFLAG

i2cVars == <<c1, s, d, slot, pc, callNo, args, buf, flags, fatal,
             dLog, irqs, doneAt, nack, stale, tick>>
ffVars  == <<ffTarget, ffBus, ffOut>>
mcgVars == <<mc1, mc2, mc4, mc5, mc6, mc7, ms, crystal, handle, todo, mpc, mfatal,
             rawOps, lastMode>>
callVars  == <<argA, argB, ret>>
delayVars == <<delayUs, delayCore, delayPc, delayOut, systReload, systEnable, systFlag>>
vars    == <<i2cVars, ffVars, mcgVars, callVars, delayVars>>

(***************************************************************************)
(* Bounds of the model.                                                    *)
(***************************************************************************)
MaxLen   == 2      \* longest buffer handed to write/read
MaxCalls == 2      \* write/read calls made by the foreground
MaxIrq   == MaxLen + 3   \* irqs saturates here

Bytes == {17, 34}          \* 0x11, 0x22
Addrs == {80}              \* 0x50
Fill  == 0                 \* content of a receive buffer before the call

RECURSIVE SeqsUpTo(_, _)
SeqsUpTo(S, n) ==
    IF n = 0 THEN {<<>>}
    ELSE LET shorter == SeqsUpTo(S, n - 1)
         IN  shorter \cup {Append(q, x) : q \in {t \in shorter : Len(t) = n - 1}, x \in S}

TxBuffers == SeqsUpTo(Bytes, MaxLen)
RxBuffers == {[i \in 1..n |-> Fill] : n \in 0..MaxLen}

(***************************************************************************)
(* I2C0 registers.                                                         *)
(***************************************************************************)
\* I2C0_C1 after reset: every bit clear.
C1Reset == [iicen |-> FALSE, iicie |-> FALSE, mst |-> FALSE, tx |-> FALSE, txak |-> FALSE]

\* i2c.c1.write(|w| w.iicen().set_bit().mst().set_bit())
C1Enable == [C1Reset EXCEPT !.iicen = TRUE, !.mst = TRUE]

\* i2c.c1.write(|w| w.iicie().set_bit())
C1Iicie == [C1Reset EXCEPT !.iicie = TRUE]

\* i2c.c1.write(|w| w.iicie().clear_bit())
C1IicieClear == [C1Reset EXCEPT !.iicie = FALSE]

\* c1.write(|w| w.mst()._0())
C1MstClear == [C1Reset EXCEPT !.mst = FALSE]

\* c1.write(|w| w.tx().clear_bit())
C1TxClear == [C1Reset EXCEPT !.tx = FALSE]

\* c1.write(|w| w.txak().set_bit())
C1Txak == [C1Reset EXCEPT !.txak = TRUE]

\* I2CStatus
AddressSend(a) == [tag |-> "AddressSend", v |-> a]
AddressSent    == [tag |-> "AddressSent", v |-> 0]
Run(k)         == [tag |-> "Run", v |-> k]

\* Move::new_uninitialized
SlotUninit == [st |-> "uninit", mode |-> "none", len |-> 0,
               status |-> AddressSent, owner |-> 0]

\* I2CState::new: the buffer pointer (its length), the status and the pointer
\* to the caller's flag (owner: the call whose frame it points into).
I2CStateNew(mode, address, len, owner) ==
    [st |-> "idle", mode |-> mode, len |-> len,
     status |-> AddressSend(address), owner |-> owner]

(***************************************************************************)
(* The protocol engine: the methods of I2CState.  They act on what the     *)
(* handler can touch, gathered in a record m:                              *)
(*   status  state.status          c1, d   the I2C0_C1 and I2C0_D registers*)
(*   dlog    the bytes stored to I2C0_D                                    *)
(*   buf     the memory the buffer pointer refers to                       *)
(*   mark    mark_done was called   read, wrote  the buffer was accessed   *)
(*   fatal   a panic raised inside the handler                             *)
(***************************************************************************)
Min(a, b) == IF a < b THEN a ELSE b

\* rx_ok: RXAK clear means the peer acknowledged.
rx_ok(st) == ~st.rxak

set_byte(m, byte) == [m EXCEPT !.d = byte, !.dlog = Append(@, byte)]

mark_done(m) == [m EXCEPT !.mark = TRUE]

stop_signal(m) == [m EXCEPT !.c1 = C1Enable]

send_byte(m, st, byte) ==
    IF rx_ok(st) THEN set_byte(m, byte)
    ELSE mark_done([m EXCEPT !.c1 = C1MstClear])

\* next_byte: Some(buffer[loc]) and status := Run(loc + 1) when loc is inside
\* the buffer, None (and no change) otherwise.
next_byte_some(len, loc) == loc < len

\* A variant that restarts the offset instead of advancing it.
next_byte_restart(m, loc) == [m EXCEPT !.status = Run(0), !.read = TRUE]

next_byte(m, loc) == [m EXCEPT !.status = Run(loc + 1), !.read = TRUE]

\* A variant that reports completion as soon as the last byte is handed over.
maybe_transmit_early(m, st, len, loc) ==
    IF next_byte_some(len, loc)
    THEN LET m1 == send_byte(next_byte(m, loc), st, m.buf[loc + 1])
         IN  IF loc + 1 = len THEN mark_done(m1) ELSE m1
    ELSE mark_done(stop_signal(m))

maybe_transmit(m, st, len, loc) ==
    IF next_byte_some(len, loc)
    THEN send_byte(next_byte(m, loc), st, m.buf[loc + 1])
    ELSE mark_done(stop_signal(m))

\* The value of the caller's `loc` after maybe_transmit returned.
maybe_transmit_loc(len, loc) == IF next_byte_some(len, loc) THEN loc + 1 ELSE loc

\* maybe_receive: buf.len() - 1 and buf.len() - 2 are usize subtractions and
\* buf[*loc] is a checked index: with overflow checks the subtraction panics,
\* without them it wraps, compares unequal and the index panics.  The
\* increment of *loc changes the handler's copy of the offset only.
maybe_receive_panics(len, loc) == len = 0 \/ (len = 1 /\ loc # 0) \/ loc >= len

maybe_receive(m, len, loc) ==
    IF maybe_receive_panics(len, loc) THEN [m EXCEPT !.fatal = "panic"]
    ELSE LET m1 == IF loc = len - 1 THEN stop_signal(m)
                   ELSE IF loc = len - 2 THEN [m EXCEPT !.c1 = C1Txak]
                   ELSE m
         IN  [m1 EXCEPT !.buf[loc + 1] = m.d, !.wrote = TRUE]

\* A variant whose AddressSent arm enters the data phase without the acknowledge.
Dispatch_nack_runs(m, st, mode, len) ==
    CASE m.status.tag = "AddressSend" ->
            [set_byte(m, m.status.v) EXCEPT !.status = AddressSent]
      [] m.status.tag = "AddressSent" ->
            IF rx_ok(st)
            THEN IF mode = "PrimaryTx"
                 THEN [maybe_transmit(m, st, len, 0) EXCEPT
                          !.status = Run(maybe_transmit_loc(len, 0))]
                 ELSE [m EXCEPT !.c1 = C1TxClear, !.status = Run(0)]
            ELSE [m EXCEPT !.status = Run(0)]
      [] m.status.tag = "Run" /\ mode = "PrimaryTx" ->
            maybe_transmit(m, st, len, m.status.v)
      [] m.status.tag = "Run" /\ mode = "PrimaryRx" ->
            maybe_receive(m, len, m.status.v)

\* The closure handed to try_lock in i2c0: the match on (mode, status).
\* Secondary modes are never constructed by write/read.
Dispatch(m, st, mode, len) ==
    CASE m.status.tag = "AddressSend" ->
            [set_byte(m, m.status.v) EXCEPT !.status = AddressSent]
      [] m.status.tag = "AddressSent" ->
            IF rx_ok(st)
            THEN IF mode = "PrimaryTx"
                 THEN [maybe_transmit(m, st, len, 0) EXCEPT
                          !.status = Run(maybe_transmit_loc(len, 0))]
                 ELSE [m EXCEPT !.c1 = C1TxClear, !.status = Run(0)]
            ELSE m
      [] m.status.tag = "Run" /\ mode = "PrimaryTx" ->
            maybe_transmit(m, st, len, m.status.v)
      [] m.status.tag = "Run" /\ mode = "PrimaryRx" ->
            maybe_receive(m, len, m.status.v)

(***************************************************************************)
(* Lifetimes.  `done` lives in run_interrupt's block (from its creation to *)
(* the end of the wait loop); the buffer lives until write/read returns.   *)
(* The slot keeps raw pointers to both after the call has ended.           *)
(***************************************************************************)
FlagLive == slot.owner = callNo /\ pc \in {"check", "wfi", "asleep"}
BufLive  == slot.owner = callNo /\ pc \in {"check", "wfi", "asleep", "disable"}

(***************************************************************************)
(* The foreground: Write::write, Read::read and run_interrupt.             *)
(***************************************************************************)
\* The I2C operations leave the other subsystems alone.
I2COnly == UNCHANGED <<ffVars, mcgVars, callVars, delayVars>>

I2CHistoryReset ==
    /\ dLog' = <<>>
    /\ irqs' = 0
    /\ doneAt' = 0
    /\ nack' = FALSE

\* write(): enable the interrupt source, then run_interrupt creates `done`
\* (false) and the I2CState on its own stack.
write ==
    /\ I2COnly
    /\ pc = "idle" /\ fatal = "none" /\ callNo < MaxCalls
    /\ \E address \in Addrs, buffer \in TxBuffers :
          /\ args' = [mode |-> "PrimaryTx", addr |-> address]
          /\ buf' = buffer
    /\ c1' = C1Iicie
    /\ callNo' = callNo + 1
    /\ flags' = [flags EXCEPT ![callNo + 1] = FALSE]
    /\ pc' = "move"
    /\ UNCHANGED <<s, d, slot, fatal, dLog, irqs, doneAt, nack, stale, tick>>

read ==
    /\ I2COnly
    /\ pc = "idle" /\ fatal = "none" /\ callNo < MaxCalls
    /\ \E address \in Addrs, buffer \in RxBuffers :
          /\ args' = [mode |-> "PrimaryRx", addr |-> address]
          /\ buf' = buffer
    /\ c1' = C1Iicie
    /\ callNo' = callNo + 1
    /\ flags' = [flags EXCEPT ![callNo + 1] = FALSE]
    /\ pc' = "move"
    /\ UNCHANGED <<s, d, slot, fatal, dLog, irqs, doneAt, nack, stale, tick>>

\* I2C0_STATE.try_move(state).ok(): called in thread mode, where the cell is
\* never locked, Move::try_move stores the value, replacing (and handing back)
\* the one an earlier call left there; the result is dropped.
try_move(cell, state) == state

run_interrupt_move ==
    /\ I2COnly
    /\ pc = "move" /\ fatal = "none"
    /\ slot' = try_move(slot, I2CStateNew(args.mode, args.addr, Len(buf), callNo))
    /\ pc' = "check"
    /\ I2CHistoryReset
    /\ UNCHANGED <<c1, s, d, callNo, args, buf, flags, fatal, stale, tick>>

\* A variant of the wait that returns without looking at the flag.
WaitExit_nowait(flag) == TRUE

\* while !done.load(Relaxed) { wfi() }: the test of the flag.
WaitExit(flag) == flag

run_interrupt_check ==
    /\ I2COnly
    /\ pc = "check" /\ fatal = "none"
    /\ pc' = IF WaitExit(flags[callNo]) THEN "disable" ELSE "wfi"
    /\ UNCHANGED <<c1, s, d, slot, callNo, args, buf, flags, fatal,
                   dLog, irqs, doneAt, nack, stale, tick>>

\* cortex_m::asm::wfi(): the core sleeps until an interrupt is taken.
run_interrupt_wfi ==
    /\ I2COnly
    /\ pc = "wfi" /\ fatal = "none"
    /\ pc' = "asleep"
    /\ UNCHANGED <<c1, s, d, slot, callNo, args, buf, flags, fatal,
                   dLog, irqs, doneAt, nack, stale, tick>>

\* After the loop: c1.write(|w| w.iicie().clear_bit()) and Ok(()).
write_read_return ==
    /\ I2COnly
    /\ pc = "disable" /\ fatal = "none"
    /\ c1' = C1IicieClear
    /\ pc' = "idle"
    /\ UNCHANGED <<s, d, slot, callNo, args, buf, flags, fatal,
                   dLog, irqs, doneAt, nack, stale, tick>>

(***************************************************************************)
(* The bus: a byte time ends, IICIF is raised, RXAK shows the peer's       *)
(* acknowledge and, for a receive, I2C0_D holds the byte clocked in.       *)
(***************************************************************************)
HwByteDone ==
    /\ I2COnly
    /\ fatal = "none" /\ ~s.iicif
    /\ \E ack \in BOOLEAN : s' = [iicif |-> TRUE, rxak |-> ~ack]
    /\ IF slot.st = "idle" /\ slot.mode = "PrimaryRx"
       THEN \E b \in Bytes : d' = b
       ELSE d' = d
    /\ UNCHANGED <<c1, slot, pc, callNo, args, buf, flags, fatal,
                   dLog, irqs, doneAt, nack, stale, tick>>

(***************************************************************************)
(* The interrupt handler i2c0.  It runs to completion before the           *)
(* foreground continues.                                                   *)
(***************************************************************************)
\* A variant that leaves the status register alone.
ClearIicif_keep(st) == st

\* *I2C0_S |= 0b0000_0010: IICIF is write-one-to-clear.
ClearIicif(st) == [st EXCEPT !.iicif = FALSE]

\* A store through the `done` pointer of a call that has ended is a store to a
\* dead stack slot: it is lost, or it lands in the flag a later call has
\* created at the same place and not yet installed (hit).
StoreDone(fl, mark, hit) ==
    IF ~mark THEN fl
    ELSE IF FlagLive THEN [fl EXCEPT ![callNo] = TRUE]
    ELSE IF pc = "move" /\ hit THEN [fl EXCEPT ![callNo] = TRUE]
    ELSE fl

i2c0 ==
    /\ I2COnly
    /\ fatal = "none" /\ s.iicif
    /\ s' = ClearIicif(s)
    /\ tick' = ~tick
    /\ pc' = IF pc = "asleep" THEN "check" ELSE pc
    /\ IF slot.st # "idle"
       THEN \* try_lock fails: the interrupt is ignored
            UNCHANGED <<c1, d, slot, callNo, args, buf, flags, fatal,
                        dLog, irqs, doneAt, nack, stale>>
       ELSE \E junk \in Bytes, hit \in BOOLEAN :
            LET m0 == [status |-> slot.status, c1 |-> c1, d |-> d, dlog |-> dLog,
                       buf |-> IF BufLive THEN buf ELSE [i \in 1..slot.len |-> junk],
                       mark |-> FALSE, read |-> FALSE, wrote |-> FALSE,
                       fatal |-> "none"]
                r  == Dispatch(m0, s, slot.mode, slot.len)
                n  == Min(irqs + 1, MaxIrq)
            IN  /\ c1' = r.c1
                /\ d' = r.d
                /\ dLog' = r.dlog
                /\ slot' = [slot EXCEPT !.status = r.status,
                                        !.st = IF r.fatal = "none" THEN "idle" ELSE "locked"]
                /\ buf' = IF BufLive THEN r.buf ELSE buf
                /\ flags' = StoreDone(flags, r.mark, hit)
                /\ fatal' = r.fatal
                /\ irqs' = n
                /\ doneAt' = IF doneAt = 0 /\ r.mark /\ FlagLive THEN n ELSE doneAt
                /\ nack' = (nack \/ (slot.status.tag # "AddressSend" /\ s.rxak))
                /\ stale' = (stale \/ (r.mark /\ ~FlagLive)
                                   \/ ((r.read \/ r.wrote) /\ ~BufLive))
                /\ UNCHANGED <<callNo, args>>

(***************************************************************************)
(* The I2C specification.  I2C0::i2c0 has written C1 := IICEN | MST.       *)
(***************************************************************************)
(***************************************************************************)
(* The MCG registers after reset (mk20d7: MCG_C1 = 0x04, MCG_C2 = 0x80,    *)
(* MCG_C5 = MCG_C6 = MCG_C7 = 0, MCG_S = 0x10), fields the code uses only. *)
(* clks, range0, clkst are the 2-bit field values; frdiv is the 3-bit one. *)
(***************************************************************************)
McgC1Reset == [clks |-> 0, frdiv |-> 0, irefs |-> TRUE]
McgC2Reset == [range0 |-> 0, erefs0 |-> FALSE, lp |-> FALSE]
McgC4Reset == [drst_drs |-> 0, dmx32 |-> FALSE]
McgC5Reset == [prdiv0 |-> 0]
McgC6Reset == [plls |-> FALSE, vdiv0 |-> 0]
McgC7Reset == [oscsel |-> FALSE]
McgSReset  == [oscinit0 |-> FALSE, irefst |-> TRUE, clkst |-> 0,
               pllst |-> FALSE, lock0 |-> FALSE]

\* MultipurposeClockGenerator::new over the registers at their reset values.
McgNew(mhz) ==
    /\ mc1 = McgC1Reset /\ mc2 = McgC2Reset /\ mc4 = McgC4Reset /\ mc5 = McgC5Reset
    /\ mc6 = McgC6Reset /\ mc7 = McgC7Reset /\ ms = McgSReset
    /\ crystal = mhz /\ handle = "Mcg" /\ todo = <<>> /\ mpc = "idle"
    /\ mfatal = "none" /\ rawOps = FALSE /\ lastMode = "Fei"

\* No call made, and the SysTick timer as Delay::new leaves it.
RetNone == <<-1, -1>>

CallIdle == argA = 0 /\ argB = 0 /\ ret = RetNone

DelayNew(us, core) ==
    /\ delayUs = us /\ delayCore = core
    /\ delayPc = "idle" /\ delayOut = "none"
    /\ systReload = <<0, 0>> /\ systEnable = FALSE /\ systFlag = FALSE

InitOther ==
    /\ ffTarget = 0 /\ ffBus = 0 /\ ffOut = <<0, 0>>
    /\ CallIdle /\ DelayNew(<<0, 1>>, 1)
    /\ McgNew(16)

InitI2CVars ==
    /\ c1 = C1Enable
    /\ s = [iicif |-> FALSE, rxak |-> FALSE]
    /\ d = Fill
    /\ slot = SlotUninit
    /\ pc = "idle"
    /\ callNo = 0
    /\ args = [mode |-> "none", addr |-> 0]
    /\ buf = <<>>
    /\ flags = [k \in 1..MaxCalls |-> FALSE]
    /\ fatal = "none"
    /\ dLog = <<>> /\ irqs = 0 /\ doneAt = 0 /\ nack = FALSE /\ stale = FALSE
    /\ tick = FALSE

InitI2C == InitI2CVars /\ InitOther

NextI2C ==
    \/ write
    \/ read
    \/ run_interrupt_move
    \/ run_interrupt_check
    \/ run_interrupt_wfi
    \/ write_read_return
    \/ HwByteDone
    \/ i2c0

SpecI2C == InitI2C /\ [][NextI2C]_vars

\* The scheduling the claims about termination assume: the foreground runs,
\* the bus keeps finishing byte times and every raised interrupt is taken.
FairSpecI2C ==
    /\ SpecI2C
    /\ WF_vars(run_interrupt_move)
    /\ WF_vars(run_interrupt_check)
    /\ WF_vars(run_interrupt_wfi)
    /\ WF_vars(write_read_return)
    /\ WF_vars(HwByteDone)
    /\ WF_vars(i2c0)

(***************************************************************************)
(* Properties of the I2C engine.                                           *)
(***************************************************************************)
\* The handler has just been entered (and has run to its end) in this step.
HandlerStep == tick' # tick

\* The handler step found a transaction in the slot and acted on it.
EngineStep == HandlerStep /\ slot.st = "idle"

\* The first k elements of a sequence.
Prefix(q, k) == SubSeq(q, 1, Min(k, Len(q)))

\* The transaction in the slot is the waiting call's, and no pointer of an
\* ended call has been dereferenced so far.
OwnTransaction(mode) ==
    /\ FlagLive
    /\ slot.st = "idle"
    /\ slot.mode = mode
    /\ ~stale

DoneSet == callNo >= 1 /\ flags[callNo]

\* C2: a read of n >= 1 bytes whose address was acknowledged (the engine is
\* in the data phase) eventually has its completion flag set.
C2_ReadCompletes ==
    (OwnTransaction("PrimaryRx") /\ slot.len >= 1 /\ slot.status.tag = "Run")
        ~> DoneSet

\* The handler step that handles status AddressSent with the acknowledge absent.
AddressNackStep ==
    EngineStep /\ slot.status.tag = "AddressSent" /\ s.rxak

\* C4 as claimed: with the acknowledge absent in status AddressSent the engine
\* goes on to Run(0).
C4_NackProceeds == [][AddressNackStep => slot'.status = Run(0)]_vars

\* C4 as amended: with the acknowledge absent in status AddressSent the engine
\* neither aborts nor enters the data phase: the status stays AddressSent and
\* no register, buffer or completion flag changes, in both modes.
C4_NackStays ==
    [][AddressNackStep =>
          /\ slot'.status = AddressSent
          /\ UNCHANGED <<c1, d, dLog, buf, flags, slot>>]_vars

C4_Witness ==
    /\ slot.st = "idle" /\ slot.mode = "PrimaryRx"
    /\ slot.status = AddressSent
    /\ irqs = 2 /\ nack

\* C5: a handler step of an uncompleted PrimaryTx transaction in status
\* Run(k): with the last byte not
\* acknowledged it stores nothing to the data register, clears the master
\* bit and sets the completion flag, whether or not bytes remain; with the
\* byte acknowledged it sends the next byte, or with none left issues the
\* stop condition and sets the flag.
C5_TxRunStep ==
    [][(/\ EngineStep /\ OwnTransaction("PrimaryTx")
        /\ slot.status.tag = "Run" /\ ~flags[callNo]) =>
          LET k == slot.status.v
          IN  IF s.rxak
              THEN dLog' = dLog /\ ~c1'.mst /\ flags'[callNo]
              ELSE IF k < slot.len
              THEN dLog' = Append(dLog, buf[k + 1]) /\ flags' = flags
              ELSE dLog' = dLog /\ c1' = C1Enable /\ flags'[callNo]]_vars

\* C7: whenever a call's transaction is in the slot, the flag of every
\* earlier call is set: no transaction is installed over an uncompleted one.
C7_OneInFlight ==
    \A j \in 1..MaxCalls : (slot.st # "uninit" /\ j < slot.owner) => flags[j]

C7_Witness ==
    /\ slot.st = "idle" /\ slot.owner = 2 /\ flags[1] /\ ~flags[2]
    /\ slot.status.tag = "Run"

\* C8: every entry of the handler clears IICIF, and with no transaction to
\* lock (the slot empty or locked) nothing else changes: not the slot, the
\* control or data register, the buffer or any completion flag.
C8_HandlerClearsFlag ==
    [][HandlerStep =>
          /\ ~s'.iicif
          /\ slot.st # "idle" =>
                UNCHANGED <<slot, c1, d, dLog, buf, flags, fatal>>]_vars

C8_Witness == tick /\ slot.st = "uninit" /\ ~s.iicif /\ pc = "move"

(***************************************************************************)
(* find_freq: the I2C baud divider search.                                 *)
(***************************************************************************)
DIVISIONS ==
    <<20, 22, 24, 26, 28, 30, 32, 34, 36, 40, 44, 48, 52, 56, 60, 64, 68, 72,
      80, 88, 96, 104, 112, 128, 136, 144, 160, 176, 192, 224, 240, 256, 288,
      320, 352, 384, 448, 480, 512, 576, 640, 768, 896, 960, 1024, 1152, 1280,
      1536, 1920, 1792, 2048, 2304, 2560, 3072, 3840>>

MULT == <<1, 2, 4>>

\* Inputs of the search.  Every frequency is below 2^31, so no u32 operation
\* of find_freq wraps and no diff reaches u32::MAX.
MaxTargetK == 8
FfTargets == {0, 1, 7} \cup {50000 * k : k \in 1..MaxTargetK}
FfBuses   == {0, 19, 20, 79, 80, 15360, 16000000, 24000000, 36000000, 48000000}

\* let calc = bus / (d * m); indices as in the code, from 0.
FfCalc(bus, i, j) == bus \div (DIVISIONS[i + 1] * MULT[j + 1])

\* let diff = if calc > target { calc - target } else { target - calc };
FfDiff(target, bus, i, j) ==
    LET calc == FfCalc(bus, i, j)
    IN  IF calc > target THEN calc - target ELSE target - calc

\* A variant of the comparison that also accepts an equal distance.
FfImproves_or_equal(acc, diff) == acc.max \/ acc.distance >= diff

\* if distance > diff: acc.max says that distance still is u32::MAX, which
\* is above every diff of the inputs modelled.
FfImproves(acc, diff) == acc.max \/ acc.distance > diff

\* One pass of the inner loop body, for the pair number p = i * MULT.len() + j.
FfStep(target, bus, p, acc) ==
    LET i    == p \div Len(MULT)
        j    == p % Len(MULT)
        diff == FfDiff(target, bus, i, j)
    IN  IF FfImproves(acc, diff)
        THEN [max |-> FALSE, distance |-> diff, idx |-> i, mul |-> j]
        ELSE acc

\* The two nested loops: the passes lo, lo + 1, ..., hi - 1 in that order
\* (i ascending, j ascending within i).  The range is split in halves, and the
\* first half's result is looked at (idx is never negative) before the second
\* half starts, only to keep the evaluation shallow; the order of the passes
\* is the code's.
RECURSIVE FfLoop(_, _, _, _, _)
FfLoop(target, bus, lo, hi, acc) ==
    IF hi <= lo THEN acc
    ELSE IF hi = lo + 1 THEN FfStep(target, bus, lo, acc)
    ELSE LET mid  == (lo + hi) \div 2
             left == FfLoop(target, bus, lo, mid, acc)
         IN  IF left.idx >= 0 THEN FfLoop(target, bus, mid, hi, left) ELSE left

\* find_freq returns (mul as u8, idx as u8).
find_freq(target, bus) ==
    LET acc == FfLoop(target, bus, 0, Len(DIVISIONS) * Len(MULT),
                      [max |-> TRUE, distance |-> 0, idx |-> 0, mul |-> 0])
    IN  <<acc.mul % 256, acc.idx % 256>>

FfNone == <<-1, -1>>

FfOnly == UNCHANGED <<i2cVars, mcgVars, callVars, delayVars>>

InitFf ==
    /\ ffTarget \in FfTargets
    /\ ffBus \in FfBuses
    /\ ffOut = FfNone
    /\ InitI2CVars
    /\ CallIdle /\ DelayNew(<<0, 1>>, 1)
    /\ McgNew(16)

\* let (ul, icr) = find_freq(baud, bus);
CallFindFreq ==
    /\ FfOnly
    /\ ffOut = FfNone
    /\ ffOut' = find_freq(ffTarget, ffBus)
    /\ UNCHANGED <<ffTarget, ffBus>>

NextFf == CallFindFreq

SpecFf == InitFf /\ [][NextFf]_vars

\* C10: find_freq returns in-range (multiplier index, divisor index) of a
\* pair at minimal distance |bus / (DIVISIONS[i] * MULT[j]) - target|, and of
\* the pairs at that distance the first in iteration order (lowest divisor
\* index, then lowest multiplier index).
C10_FindFreqNearest ==
    ffOut # FfNone =>
        LET mul  == ffOut[1]
            idx  == ffOut[2]
            best == FfDiff(ffTarget, ffBus, idx, mul)
        IN  /\ mul \in 0..(Len(MULT) - 1)
            /\ idx \in 0..(Len(DIVISIONS) - 1)
            /\ \A i \in 0..(Len(DIVISIONS) - 1), j \in 0..(Len(MULT) - 1) :
                  LET dist == FfDiff(ffTarget, ffBus, i, j)
                  IN  /\ dist >= best
                      /\ dist = best => (idx < i \/ (idx = i /\ mul <= j))

\* A search with several pairs at the minimal distance, and one whose result
\* is not the first pair.
C10_Witness ==
    /\ ffOut # FfNone
    /\ ffOut # <<0, 0>>
    /\ \E i \in 0..(Len(DIVISIONS) - 1), j \in 0..(Len(MULT) - 1) :
          /\ <<j, i>> # ffOut
          /\ FfDiff(ffTarget, ffBus, i, j) = FfDiff(ffTarget, ffBus, ffOut[2], ffOut[1])

(***************************************************************************)
(* Multipurpose Clock Generator (src/src/mcg.rs).                          *)
(***************************************************************************)
PLL_DIVIDER_NUMERATOR_MIN   == 24
PLL_DIVIDER_NUMERATOR_MAX   == 55
PLL_DIVIDER_DENOMINATOR_MIN == 1
PLL_DIVIDER_DENOMINATOR_MAX == 25

\* crate::sim::MAXIMUM_CLOCK_FREQUENCY, in MHz (the value the use assumes).
MAXIMUM_CLOCK_FREQUENCY == 72

U8Max == 255

\* Inputs of the model.
Crystals   == {1, 8, 16}              \* external_crystal_frequency, MHz
Dividers   == {1, 32, 512, 3}         \* set_external_crystal_frequency_divider
PllPairs   == {<<24, 1>>, <<27, 6>>, <<56, 1>>, <<24, 0>>}
PllTargets == {72, 48, 300}           \* set_pll_frequency, MHz

\* let rtc_or_low_freq_crystal = crystal_low_frequency || real_time_clock;
rtc_or_low_freq_crystal == mc2.range0 = 0 \/ mc7.oscsel

\* The match of set_external_crystal_frequency_divider: the FRDIV encoding of
\* the first arm whose guard holds (&& binds tighter than ||), -1 for the
\* panicking arm.
FrdivOf(low, divider) ==
    IF      (low /\ divider = 1)   \/ divider = 32   THEN 0
    ELSE IF (low /\ divider = 2)   \/ divider = 64   THEN 1
    ELSE IF (low /\ divider = 4)   \/ divider = 128  THEN 2
    ELSE IF (low /\ divider = 8)   \/ divider = 256  THEN 3
    ELSE IF (low /\ divider = 16)  \/ divider = 512  THEN 4
    ELSE IF (low /\ divider = 32)  \/ divider = 1024 THEN 5
    ELSE IF (low /\ divider = 64)  \/ divider = 1280 THEN 6
    ELSE IF (low /\ divider = 128) \/ divider = 1536 THEN 7
    ELSE -1

get_external_crystal_frequency_divider ==
    LET low == rtc_or_low_freq_crystal
    IN  CASE mc1.frdiv = 0 -> IF low THEN 1   ELSE 32
          [] mc1.frdiv = 1 -> IF low THEN 2   ELSE 64
          [] mc1.frdiv = 2 -> IF low THEN 4   ELSE 128
          [] mc1.frdiv = 3 -> IF low THEN 8   ELSE 256
          [] mc1.frdiv = 4 -> IF low THEN 16  ELSE 512
          [] mc1.frdiv = 5 -> IF low THEN 32  ELSE 1024
          [] mc1.frdiv = 6 -> IF low THEN 64  ELSE 1280
          [] mc1.frdiv = 7 -> IF low THEN 128 ELSE 1536

\* fll >= FLL_RANGE_MIN && fll <= FLL_RANGE_MAX with fll = khz / divider,
\* FLL_RANGE_MIN = 31.25 = 125/4 and FLL_RANGE_MAX = 39.0625 = 625/16.  Both
\* limits are exact in f32 and a quotient of these integers that is not equal
\* to a limit is further from it than the f32 rounding error, so the
\* comparison of the floats is the comparison of the fractions.
fll_range_ok ==
    LET khz == 1000 * crystal
        div == get_external_crystal_frequency_divider
    IN  4 * khz >= 125 * div /\ 16 * khz <= 625 * div

\* The truth table of clock_mode_name, first matching arm; "none" is the
\* panicking arm.
clock_mode_name ==
    LET clks == mc1.clks
        iref == mc1.irefs
        pll  == mc6.plls
        lp   == mc2.lp
        ok   == fll_range_ok
    IN  IF      clks = 0 /\ iref  /\ ~pll              THEN "Fei"
        ELSE IF clks = 0 /\ ~iref /\ ~pll /\ ok        THEN "Fee"
        ELSE IF clks = 1 /\ iref  /\ ~pll /\ ~lp       THEN "Fbi"
        ELSE IF clks = 2 /\ ~iref /\ ~pll /\ ~lp /\ ok THEN "Fbe"
        ELSE IF clks = 0 /\ ~iref /\ pll               THEN "Pee"
        ELSE IF clks = 2 /\ ~iref /\ pll  /\ ~lp       THEN "Pbe"
        ELSE IF clks = 1 /\ iref  /\ ~pll /\ lp        THEN "Blpi"
        ELSE IF clks = 2 /\ ~iref /\ lp                THEN "Blpe"
        ELSE "none"

\* Euclid's loop of pll_frequency_divider_gcd.
RECURSIVE Euclid(_, _)
Euclid(num, den) == IF den = 0 THEN num ELSE Euclid(den, num % den)

PllPanic == <<0, 0>>

\* A variant of the scaling loop that returns the reduced pair as it is.
PllScale_unscaled(num, den, mul) == <<num, den>>

\* The scaling loop: freq_num = num * mul and freq_den = den * mul on entry.
RECURSIVE PllScale(_, _, _)
PllScale(num, den, mul) ==
    IF ~(num * mul < PLL_DIVIDER_NUMERATOR_MIN \/ den * mul < PLL_DIVIDER_DENOMINATOR_MIN)
    THEN <<num * mul, den * mul>>
    ELSE LET next == mul + 1
         IN  IF /\ num * next <= U8Max
                /\ den * next <= U8Max
                /\ num * next <= PLL_DIVIDER_NUMERATOR_MAX
                /\ den * next <= PLL_DIVIDER_DENOMINATOR_MAX
             THEN PllScale(num, den, next)
             ELSE PllPanic

\* A variant that does not divide the arguments by their gcd.
pll_frequency_divider_gcd_unreduced(numerator, denominator) ==
    IF \/ numerator = 0 \/ denominator = 0
       \/ numerator > PLL_DIVIDER_NUMERATOR_MAX
       \/ denominator > PLL_DIVIDER_DENOMINATOR_MAX
    THEN PllPanic
    ELSE PllScale(numerator, denominator, 1)

\* pll_frequency_divider_gcd on u8 arguments; PllPanic for every panic
\* (the division by a zero gcd included).
pll_frequency_divider_gcd(numerator, denominator) ==
    LET gcd == Euclid(numerator, denominator)
    IN  IF gcd = 0 THEN PllPanic
        ELSE LET num == numerator \div gcd
                 den == denominator \div gcd
             IN  IF \/ num = 0 \/ den = 0
                    \/ num > PLL_DIVIDER_NUMERATOR_MAX
                    \/ den > PLL_DIVIDER_DENOMINATOR_MAX
                 THEN PllPanic
                 ELSE PllScale(num, den, 1)

(***************************************************************************)
(* Calls.  A transition (Into) is the list of calls its body makes; todo   *)
(* holds the calls still to make, the head being the next one.  A call     *)
(* writes its register at once and then sits in its polling loops (mpc)    *)
(* until the status register lets it through.                              *)
(***************************************************************************)
Op(name, a, want) == [op |-> name, a |-> a, want |-> want]

McgOnly == UNCHANGED <<i2cVars, ffVars, callVars, delayVars>>

\* The call `name` can start: nothing has panicked, no polling loop is
\* running, and either the running transition makes this call next or the
\* caller still holds the generator itself (clock_mode has not borrowed it).
Due(name) ==
    /\ mfatal = "none"
    /\ mpc = "idle"
    /\ IF todo = <<>> THEN handle = "Mcg" ELSE Head(todo).op = name

\* The argument of the call: the transition's, or any the caller may pass.
Arg(inputs) == IF todo = <<>> THEN inputs ELSE {Head(todo).a}

\* Bookkeeping of a call, stated last in each action: the call leaves the
\* list, and the histories are brought up to date with the registers the
\* call has written.
Called ==
    /\ todo' = (IF todo = <<>> THEN todo ELSE Tail(todo))
    /\ rawOps' = (rawOps \/ todo = <<>>)
    /\ lastMode' = (IF clock_mode_name' = "none" THEN lastMode ELSE clock_mode_name')

enable_external_crystal_request ==
    /\ McgOnly
    /\ Due("enable_external_crystal_request")
    /\ IF mc2.erefs0
       THEN UNCHANGED <<mc2, mpc>>
       ELSE /\ mc2' = [McgC2Reset EXCEPT !.erefs0 = TRUE]
            /\ mpc' = "oscinit0_set"
    /\ UNCHANGED <<mc1, mc5, mc6, mc7, ms, crystal, mc4, handle, mfatal>>
    /\ Called

disable_external_crystal_request ==
    /\ McgOnly
    /\ Due("disable_external_crystal_request")
    /\ IF ~mc2.erefs0
       THEN UNCHANGED <<mc2, mpc>>
       ELSE /\ mc2' = [McgC2Reset EXCEPT !.erefs0 = FALSE]
            /\ mpc' = "oscinit0_clear"
    /\ UNCHANGED <<mc1, mc5, mc6, mc7, ms, crystal, mc4, handle, mfatal>>
    /\ Called

set_external_crystal_frequency_range_low ==
    /\ McgOnly
    /\ Due("set_external_crystal_frequency_range_low")
    /\ mc2' = [McgC2Reset EXCEPT !.range0 = 0]
    /\ UNCHANGED <<mc1, mc5, mc6, mc7, ms, crystal, mc4, handle, mpc, mfatal>>
    /\ Called

set_external_crystal_frequency_range_high ==
    /\ McgOnly
    /\ Due("set_external_crystal_frequency_range_high")
    /\ mc2' = [McgC2Reset EXCEPT !.range0 = 1]
    /\ UNCHANGED <<mc1, mc5, mc6, mc7, ms, crystal, mc4, handle, mpc, mfatal>>
    /\ Called

set_external_crystal_frequency_divider ==
    /\ McgOnly
    /\ Due("set_external_crystal_frequency_divider")
    /\ \E divider \in Arg(Dividers) :
          LET frdiv == FrdivOf(rtc_or_low_freq_crystal, divider)
          IN  IF frdiv = -1
              THEN mfatal' = "Invalid external clock divider" /\ mc1' = mc1
              ELSE mc1' = [McgC1Reset EXCEPT !.frdiv = frdiv] /\ mfatal' = mfatal
    /\ UNCHANGED <<mc2, mc5, mc6, mc7, ms, crystal, mc4, handle, mpc>>
    /\ Called

use_external_crystal ==
    /\ McgOnly
    /\ Due("use_external_crystal")
    /\ mc1' = [McgC1Reset EXCEPT !.clks = 2, !.irefs = FALSE]
    /\ mpc' = "irefst"
    /\ UNCHANGED <<mc2, mc5, mc6, mc7, ms, crystal, mc4, handle, mfatal>>
    /\ Called

\* The body of set_pll_frequency_divider.
WritePllDivider(numerator, denominator) ==
    IF numerator < PLL_DIVIDER_NUMERATOR_MIN \/ numerator > PLL_DIVIDER_NUMERATOR_MAX
    THEN mfatal' = "Invalid PLL VCO divide factor" /\ UNCHANGED <<mc5, mc6>>
    ELSE IF \/ denominator < PLL_DIVIDER_DENOMINATOR_MIN
            \/ denominator > PLL_DIVIDER_DENOMINATOR_MAX
    THEN mfatal' = "Invalid PLL reference divide factor" /\ UNCHANGED <<mc5, mc6>>
    ELSE /\ mc5' = [McgC5Reset EXCEPT !.prdiv0 = denominator - PLL_DIVIDER_DENOMINATOR_MIN]
         /\ mc6' = [McgC6Reset EXCEPT !.vdiv0 = numerator - PLL_DIVIDER_NUMERATOR_MIN]
         /\ mfatal' = mfatal

set_pll_frequency_divider ==
    /\ McgOnly
    /\ Due("set_pll_frequency_divider")
    /\ \E pair \in Arg(PllPairs) : WritePllDivider(pair[1], pair[2])
    /\ UNCHANGED <<mc1, mc2, mc7, ms, crystal, mc4, handle, mpc>>
    /\ Called

\* A variant that returns the two fields without their offsets.
get_pll_frequency_divider_raw == <<mc6.vdiv0, mc5.prdiv0>>

get_pll_frequency_divider ==
    <<mc6.vdiv0 + PLL_DIVIDER_NUMERATOR_MIN, mc5.prdiv0 + PLL_DIVIDER_DENOMINATOR_MIN>>

set_pll_frequency ==
    /\ McgOnly
    /\ Due("set_pll_frequency")
    /\ \E frequency \in Arg(PllTargets) :
          IF frequency > U8Max \/ crystal > U8Max
          THEN mfatal' = "called Result::unwrap() on an Err value"
               /\ UNCHANGED <<mc5, mc6>>
          ELSE LET divider == pll_frequency_divider_gcd(frequency, crystal)
               IN  IF divider = PllPanic
                   THEN mfatal' = "Cannot find a GCD for PLL frequency divider"
                        /\ UNCHANGED <<mc5, mc6>>
                   ELSE WritePllDivider(divider[1], divider[2])
    /\ UNCHANGED <<mc1, mc2, mc7, ms, crystal, mc4, handle, mpc>>
    /\ Called

enable_pll ==
    /\ McgOnly
    /\ Due("enable_pll")
    /\ mc6' = [McgC6Reset EXCEPT !.plls = TRUE]
    /\ mpc' = "pllst"
    /\ UNCHANGED <<mc1, mc2, mc5, mc7, ms, crystal, mc4, handle, mfatal>>
    /\ Called

use_pll ==
    /\ McgOnly
    /\ Due("use_pll")
    /\ mc1' = [McgC1Reset EXCEPT !.clks = 2]
    /\ mpc' = "clkst_pll"
    /\ UNCHANGED <<mc2, mc5, mc6, mc7, ms, crystal, mc4, handle, mfatal>>
    /\ Called

NotInMode ==
    [Fbe |-> "Somehow the clock wasn't in FBE mode",
     Pbe |-> "Somehow the clock wasn't in PBE mode",
     Pee |-> "Somehow the clock wasn't in PEE mode"]

\* clock_mode(), called on the generator itself or as the last call of a
\* transition, which then matches the result against the mode it wants.
clock_mode ==
    /\ McgOnly
    /\ Due("clock_mode")
    /\ LET name == clock_mode_name
           want == IF todo = <<>> THEN name ELSE Head(todo).want
       IN  IF name = "none"
           THEN /\ mfatal' = "The current clock mode cannot be represented as a known struct"
                /\ handle' = handle
           ELSE IF name = want
           THEN mfatal' = mfatal /\ handle' = name
           ELSE mfatal' = NotInMode[want] /\ handle' = handle
    /\ todo' = (IF todo = <<>> THEN todo ELSE Tail(todo))
    /\ UNCHANGED <<mc1, mc2, mc5, mc6, mc7, ms, crystal, mc4, mpc, rawOps, lastMode>>

\* A transition can start: its source handle is held and nothing is running.
Held(from) ==
    /\ mfatal = "none" /\ mpc = "idle" /\ todo = <<>>
    /\ handle = from

\* impl Into<Fbe> for Fei: self is moved into the transition.
into_Fbe ==
    /\ McgOnly
    /\ Held("Fei")
    /\ handle' = "moved"
    /\ todo' = << Op("set_external_crystal_frequency_range_high", 0, ""),
                  Op("enable_external_crystal_request", 0, ""),
                  Op("set_external_crystal_frequency_divider", 512, ""),
                  Op("use_external_crystal", 0, ""),
                  Op("clock_mode", 0, "Fbe") >>
    /\ UNCHANGED <<mc1, mc2, mc5, mc6, mc7, ms, crystal, mc4, mpc, mfatal, rawOps, lastMode>>

\* impl Into<Pbe> for Fbe
into_Pbe ==
    /\ McgOnly
    /\ Held("Fbe")
    /\ handle' = "moved"
    /\ todo' = << Op("set_pll_frequency", MAXIMUM_CLOCK_FREQUENCY, ""),
                  Op("enable_pll", 0, ""),
                  Op("clock_mode", 0, "Pbe") >>
    /\ UNCHANGED <<mc1, mc2, mc5, mc6, mc7, ms, crystal, mc4, mpc, mfatal, rawOps, lastMode>>

\* impl Into<Pee> for Pbe
into_Pee ==
    /\ McgOnly
    /\ Held("Pbe")
    /\ handle' = "moved"
    /\ todo' = << Op("use_pll", 0, ""),
                  Op("clock_mode", 0, "Pee") >>
    /\ UNCHANGED <<mc1, mc2, mc5, mc6, mc7, ms, crystal, mc4, mpc, mfatal, rawOps, lastMode>>

\* The polling loops.  A loop is left, for the next loop of the call or for
\* the call's return, when the status register shows the awaited value.
Polling(at) == mfatal = "none" /\ mpc = at

PollFrame ==
    UNCHANGED <<mc1, mc2, mc5, mc6, mc7, ms, crystal, mc4, handle, todo, mfatal, rawOps, lastMode>>

\* while self.mcg.s.read().oscinit0().bit_is_clear() {}
wait_oscinit0_set ==
    /\ McgOnly /\ Polling("oscinit0_set") /\ ms.oscinit0
    /\ mpc' = "idle" /\ PollFrame

\* while self.mcg.s.read().oscinit0().bit_is_set() {}
wait_oscinit0_clear ==
    /\ McgOnly /\ Polling("oscinit0_clear") /\ ~ms.oscinit0
    /\ mpc' = "idle" /\ PollFrame

\* while self.mcg.s.read().irefst().bit_is_set() {}
wait_irefst ==
    /\ McgOnly /\ Polling("irefst") /\ ~ms.irefst
    /\ mpc' = "clkst_ext" /\ PollFrame

\* while !self.mcg.s.read().clkst().is_10() {}   (use_external_crystal)
wait_clkst_ext ==
    /\ McgOnly /\ Polling("clkst_ext") /\ ms.clkst = 2
    /\ mpc' = "idle" /\ PollFrame

\* while self.mcg.s.read().pllst().bit_is_clear() {}
wait_pllst ==
    /\ McgOnly /\ Polling("pllst") /\ ms.pllst
    /\ mpc' = "lock0" /\ PollFrame

\* while self.mcg.s.read().lock0().bit_is_clear() {}
wait_lock0 ==
    /\ McgOnly /\ Polling("lock0") /\ ms.lock0
    /\ mpc' = "idle" /\ PollFrame

\* while !self.mcg.s.read().clkst().is_10() {}   (use_pll)
wait_clkst_pll ==
    /\ McgOnly /\ Polling("clkst_pll") /\ ms.clkst = 2
    /\ mpc' = "idle" /\ PollFrame

\* The hardware: each status bit follows its control bits, one at a time and
\* at any moment.  CLKST reports the FLL (00), the internal (01) or external
\* (10) reference, or the PLL (11) when CLKS = 00 and PLLS is set.
StatusOf ==
    [oscinit0 |-> mc2.erefs0,
     irefst   |-> mc1.irefs,
     clkst    |-> IF mc1.clks = 0 THEN (IF mc6.plls THEN 3 ELSE 0) ELSE mc1.clks,
     pllst    |-> mc6.plls,
     lock0    |-> mc6.plls]

HwMcg ==
    /\ McgOnly
    /\ \E bit \in DOMAIN StatusOf :
          /\ ms[bit] # StatusOf[bit]
          /\ ms' = [ms EXCEPT ![bit] = StatusOf[bit]]
    /\ UNCHANGED <<mc1, mc2, mc5, mc6, mc7, crystal, mc4, handle, todo, mpc, mfatal, rawOps, lastMode>>

InitMcg ==
    /\ InitI2CVars
    /\ ffTarget = 0 /\ ffBus = 0 /\ ffOut = <<0, 0>>
    /\ CallIdle /\ DelayNew(<<0, 1>>, 1)
    /\ \E mhz \in Crystals : McgNew(mhz)

NextMcg ==
    \/ enable_external_crystal_request
    \/ disable_external_crystal_request
    \/ set_external_crystal_frequency_range_low
    \/ set_external_crystal_frequency_range_high
    \/ set_external_crystal_frequency_divider
    \/ use_external_crystal
    \/ set_pll_frequency_divider
    \/ set_pll_frequency
    \/ enable_pll
    \/ use_pll
    \/ clock_mode
    \/ into_Fbe
    \/ into_Pbe
    \/ into_Pee
    \/ wait_oscinit0_set
    \/ wait_oscinit0_clear
    \/ wait_irefst
    \/ wait_clkst_ext
    \/ wait_pllst
    \/ wait_lock0
    \/ wait_clkst_pll
    \/ HwMcg

SpecMcg == InitMcg /\ [][NextMcg]_vars

\* C3: started on the power-on registers with a 16 MHz crystal and driven
\* through the transitions only (no register operation called on the
\* generator itself), the sequencer never reaches a fatal condition.
C3_NoFatal ==
    (crystal = 16 /\ ~rawOps) => mfatal = "none"

\* C9: whichever operation makes the step, the mode the registers represent
\* changes only from FEI to FBE, from FBE to PBE and from PBE to PEE; register
\* values that represent no mode in between are not counted as a mode.
LegalTransitions == {<<"Fei", "Fbe">>, <<"Fbe", "Pbe">>, <<"Pbe", "Pee">>}

C9_OnlyLegalTransitions ==
    [][(clock_mode_name' # "none" /\ clock_mode_name' # lastMode)
          => <<lastMode, clock_mode_name'>> \in LegalTransitions]_vars

(***************************************************************************)
(* pll_frequency_divider_gcd called on every pair of u8 arguments.         *)
(***************************************************************************)
CallOnly == UNCHANGED <<i2cVars, ffVars, mcgVars, delayVars>>

InitGcd ==
    /\ argA \in 0..U8Max
    /\ argB \in 0..U8Max
    /\ ret = RetNone
    /\ InitI2CVars
    /\ ffTarget = 0 /\ ffBus = 0 /\ ffOut = <<0, 0>>
    /\ McgNew(16)
    /\ DelayNew(<<0, 1>>, 1)

\* let divider = pll_frequency_divider_gcd(frequency, crystal);
CallGcd ==
    /\ CallOnly
    /\ ret = RetNone
    /\ ret' = pll_frequency_divider_gcd(argA, argB)
    /\ UNCHANGED <<argA, argB>>

NextGcd == CallGcd

SpecGcd == InitGcd /\ [][NextGcd]_vars

\* The greatest common divisor, by its definition (0 for the pair 0, 0).
Divides(g, n) == n % g = 0

GcdOf(a, b) ==
    IF a = 0 /\ b = 0 THEN 0
    ELSE LET common == {g \in 1..U8Max : Divides(g, a) /\ Divides(g, b)}
         IN  CHOOSE g \in common : \A h \in common : h <= g

\* k scales the reduced pair (a, b) into the ranges of the two dividers.
Scales(k, a, b) ==
    /\ k * a >= PLL_DIVIDER_NUMERATOR_MIN
    /\ k * a <= PLL_DIVIDER_NUMERATOR_MAX
    /\ k * b <= PLL_DIVIDER_DENOMINATOR_MAX

Returned == ret # RetNone /\ ret # PllPanic

\* C11: whenever pll_frequency_divider_gcd(frequency, crystal) returns (n, d),
\* 24 <= n <= 55, 1 <= d <= 25, and (n, d) is the pair (frequency / g,
\* crystal / g), g the gcd, multiplied by one integer k >= 1, so that
\* n * crystal = d * frequency.
C11_GcdResultInRange ==
    Returned =>
        LET num == ret[1]
            den == ret[2]
            g   == GcdOf(argA, argB)
        IN  /\ num >= PLL_DIVIDER_NUMERATOR_MIN /\ num <= PLL_DIVIDER_NUMERATOR_MAX
            /\ den >= PLL_DIVIDER_DENOMINATOR_MIN /\ den <= PLL_DIVIDER_DENOMINATOR_MAX
            /\ g >= 1
            /\ \E k \in 1..PLL_DIVIDER_NUMERATOR_MAX :
                  num = k * (argA \div g) /\ den = k * (argB \div g)
            /\ num * argB = den * argA

\* A call that returned a pair scaled by more than 1.
C11_Witness ==
    /\ Returned
    /\ ret[1] > argA \div GcdOf(argA, argB)

\* C12: pll_frequency_divider_gcd(frequency, crystal) panics exactly when an
\* argument is zero or no k >= 1 scales the reduced pair into the ranges;
\* otherwise it returns the reduced pair scaled by the smallest such k.
C12_GcdPanicsExactly ==
    ret # RetNone =>
        LET g    == GcdOf(argA, argB)
            a    == IF g = 0 THEN 0 ELSE argA \div g
            b    == IF g = 0 THEN 0 ELSE argB \div g
            fits == {k \in 1..PLL_DIVIDER_NUMERATOR_MAX : Scales(k, a, b)}
            some == argA # 0 /\ argB # 0 /\ fits # {}
        IN  /\ (ret = PllPanic) <=> ~some
            /\ some =>
                  LET k == CHOOSE m \in fits : \A l \in fits : m <= l
                  IN  ret = <<k * a, k * b>>

\* A panic raised inside the scaling loop: both arguments are non-zero and
\* the reduced pair passes the first test, but no k fits.
C12_Witness ==
    /\ ret = PllPanic
    /\ argA # 0 /\ argB # 0
    /\ argA \div GcdOf(argA, argB) <= PLL_DIVIDER_NUMERATOR_MAX
    /\ argB \div GcdOf(argA, argB) <= PLL_DIVIDER_DENOMINATOR_MAX

(***************************************************************************)
(* set_pll_frequency_divider called on every pair of u8 arguments, and     *)
(* get_pll_frequency_divider called after it.                              *)
(***************************************************************************)
InitPllDiv ==
    /\ argA \in 0..U8Max
    /\ argB \in 0..U8Max
    /\ ret = RetNone
    /\ InitI2CVars
    /\ ffTarget = 0 /\ ffBus = 0 /\ ffOut = <<0, 0>>
    /\ McgNew(16)
    /\ DelayNew(<<0, 1>>, 1)

\* mcg.set_pll_frequency_divider(n, d); mcg.get_pll_frequency_divider()
\* (ret is PllPanic when the first call panicked).
CallSetPllDivider ==
    /\ UNCHANGED <<i2cVars, ffVars, delayVars>>
    /\ ret = RetNone
    /\ WritePllDivider(argA, argB)
    /\ UNCHANGED <<argA, argB, mc1, mc2, mc7, ms, crystal, mc4, handle, todo, mpc,
                   rawOps, lastMode>>
    /\ ret' = (IF mfatal' = "none" THEN get_pll_frequency_divider' ELSE PllPanic)

NextPllDiv == CallSetPllDivider

SpecPllDiv == InitPllDiv /\ [][NextPllDiv]_vars

PllDividerInRange(numerator, denominator) ==
    /\ numerator >= PLL_DIVIDER_NUMERATOR_MIN
    /\ numerator <= PLL_DIVIDER_NUMERATOR_MAX
    /\ denominator >= PLL_DIVIDER_DENOMINATOR_MIN
    /\ denominator <= PLL_DIVIDER_DENOMINATOR_MAX

\* C13: for n in 24..55 and d in 1..25, get_pll_frequency_divider called
\* after set_pll_frequency_divider(n, d) returns (n, d); for n or d outside
\* the ranges set_pll_frequency_divider panics and has written neither
\* divider register.
C13_PllDividerRoundTrip ==
    ret # RetNone =>
        IF PllDividerInRange(argA, argB)
        THEN mfatal = "none" /\ ret = <<argA, argB>>
        ELSE mfatal # "none" /\ mc5 = McgC5Reset /\ mc6 = McgC6Reset

\* The largest legal pair has been set and read back.
C13_Witness ==
    /\ ret = <<PLL_DIVIDER_NUMERATOR_MAX, PLL_DIVIDER_DENOMINATOR_MAX>>
    /\ argA = PLL_DIVIDER_NUMERATOR_MAX /\ argB = PLL_DIVIDER_DENOMINATOR_MAX
    /\ mc6.vdiv0 = PLL_DIVIDER_NUMERATOR_MAX - PLL_DIVIDER_NUMERATOR_MIN

(***************************************************************************)
(* SysTick delay (src/src/delay.rs).  A u32 is kept as the pair            *)
(* <<high half, low half>> of its 16-bit halves, so that the 32-bit        *)
(* product and its wrap-around are computed exactly.                       *)
(***************************************************************************)
Half == 65536

\* Inputs of the model: us = high * 2^16 + low, and the core frequency that
\* sim.get_frequencies returns (MHz).
DelayHighs == {0, 3, 4, 255, 256, 1024, 65535}
DelayLows  == {0, 1, 36408, 36409, 65535}
DelayCores == {1, 48, 64, 72}

\* us * u32::from(core): the product modulo 2^32, and whether it overflowed.
MulU32(us, core) ==
    LET low  == us[2] * core
        high == us[1] * core + low \div Half
    IN  [val |-> <<high % Half, low % Half>>, overflow |-> high >= Half]

\* rvr > (1 << 24)
AboveLimit(rvr) == rvr[1] > 256 \/ (rvr[1] = 256 /\ rvr[2] > 0)

\* SYST_RVR keeps the low 24 bits of what set_reload writes.
Reload24(rvr) == <<rvr[1] % 256, rvr[2]>>

DelayOnly == UNCHANGED <<i2cVars, ffVars, mcgVars, callVars>>

\* delay_us up to its polling loop.  An overflowing multiplication panics in
\* a build with overflow checks and wraps in one without; both builds are
\* outcomes of the call.
delay_us ==
    /\ DelayOnly
    /\ delayPc = "idle"
    /\ LET product == MulU32(delayUs, delayCore)
           rvr     == product.val
       IN  \E checks \in BOOLEAN :
             IF product.overflow /\ checks
             THEN /\ delayOut' = "panic" /\ delayPc' = "done"
                  /\ UNCHANGED <<systReload, systEnable, systFlag>>
             ELSE IF AboveLimit(rvr)
             THEN /\ delayOut' = "InvalidDelay" /\ delayPc' = "done"
                  /\ UNCHANGED <<systReload, systEnable, systFlag>>
             ELSE /\ systReload' = Reload24(rvr)
                  /\ systFlag' = FALSE
                  /\ systEnable' = TRUE
                  /\ delayPc' = "wait"
                  /\ delayOut' = delayOut
    /\ UNCHANGED <<delayUs, delayCore>>

\* The counter runs down from the reload value and sets COUNTFLAG when it
\* passes from 1 to 0, which a reload value of 0 never does.
SystWrap ==
    /\ DelayOnly
    /\ systEnable /\ ~systFlag
    /\ systReload # <<0, 0>>
    /\ systFlag' = TRUE
    /\ UNCHANGED <<delayUs, delayCore, delayPc, delayOut, systReload, systEnable>>

\* while !self.syst.has_wrapped() {}; disable_counter(); Ok(())
delay_us_wrapped ==
    /\ DelayOnly
    /\ delayPc = "wait"
    /\ systFlag
    /\ systFlag' = FALSE
    /\ systEnable' = FALSE
    /\ delayPc' = "done"
    /\ delayOut' = "Ok"
    /\ UNCHANGED <<delayUs, delayCore, systReload>>

InitDelay ==
    /\ InitI2CVars
    /\ ffTarget = 0 /\ ffBus = 0 /\ ffOut = <<0, 0>>
    /\ McgNew(16)
    /\ CallIdle
    /\ \E high \in DelayHighs, low \in DelayLows, core \in DelayCores :
          DelayNew(<<high, low>>, core)

NextDelay ==
    \/ delay_us
    \/ SystWrap
    \/ delay_us_wrapped

SpecDelay == InitDelay /\ [][NextDelay]_vars

\* The reload value us * core as an unbounded number, in units of 2^16 and
\* below, and whether it lies in 1..0x00FFFFFF.
ExactProduct ==
    LET low == delayUs[2] * delayCore
    IN  <<delayUs[1] * delayCore + low \div Half, low % Half>>

ReloadInRange == ExactProduct[1] < 256 /\ ExactProduct # <<0, 0>>

\* C14: once delay_us has been entered, a reload value outside
\* 1..0x00FFFFFF (an overflowing product included) has produced InvalidDelay
\* with the timer neither programmed nor started, and a reload value inside
\* it has been programmed as it is; the call never panics.
C14_RejectsOutOfRange ==
    delayPc # "idle" =>
        IF ReloadInRange
        THEN delayOut \in {"none", "Ok"} /\ systReload = ExactProduct
        ELSE delayOut = "InvalidDelay" /\ systReload = <<0, 0>> /\ ~systEnable

(***************************************************************************)
(* Further properties of the I2C engine.                                   *)
(***************************************************************************)
\* C15: a handler step of the waiting PrimaryRx transaction in status Run(k),
\* k < n, stores the byte of the data register into buffer[k] and leaves the
\* status at Run(k + 1); at k = n - 2 it sets the acknowledge-suppress bit
\* and at k = n - 1 it issues the stop condition.
C15_RxRunStep ==
    [][(/\ EngineStep /\ OwnTransaction("PrimaryRx")
        /\ slot.status.tag = "Run" /\ slot.status.v < slot.len) =>
          LET k == slot.status.v
              n == slot.len
          IN  /\ buf' = [buf EXCEPT ![k + 1] = d]
              /\ slot'.status = Run(k + 1)
              /\ (k = n - 2 => c1'.txak)
              /\ (k = n - 1 => c1' = C1Enable)]_vars

(***************************************************************************)
(* Further properties of the clock generator's transitions.                *)
(***************************************************************************)
\* The step that makes the call `name` of the running transition.
TransitionCall(name) ==
    /\ todo # <<>>
    /\ Head(todo).op = name
    /\ todo' = Tail(todo)

\* C16: in the PBE->PEE transition use_pll writes CLKS = 00 (the PLL/FLL
\* output) and its loop waits for CLKST = 11 (the PLL), and the clock_mode
\* call that ends the transition derives PEE and hands out the Pee handle
\* without a panic.
C16_UsePllReachesPee ==
    [][/\ (TransitionCall("use_pll") => mc1'.clks = 0)
       /\ (handle = "moved" /\ mpc = "clkst_pll" /\ mpc' = "idle" => ms.clkst = 3)
       /\ (TransitionCall("clock_mode") /\ Head(todo).want = "Pee"
              => /\ clock_mode_name = "Pee"
                 /\ mfatal' = "none"
                 /\ handle' = "Pee")]_vars

\* C17: the step of enable_pll sets the PLL-enable bit and leaves the divider
\* pair that get_pll_frequency_divider reads back as set_pll_frequency has
\* programmed it.
C17_EnablePllKeepsDivider ==
    [][(mpc = "idle" /\ mpc' = "pllst") =>
          /\ mc6'.plls
          /\ get_pll_frequency_divider' = get_pll_frequency_divider]_vars

\* C18: when the FEI->FBE transition has made its four register calls and
\* derives the mode, the crystal range is high, the crystal is requested,
\* the reference divider reads back as 512, the clock source is the
\* external reference with the internal-reference bit clear, the FLL
\* reference is in range and the mode derived is FBE.
C18_FbeStepsInEffect ==
    [][(TransitionCall("clock_mode") /\ Head(todo).want = "Fbe") =>
          /\ mc2.range0 = 1
          /\ mc2.erefs0
          /\ get_external_crystal_frequency_divider = 512
          /\ mc1.clks = 2 /\ ~mc1.irefs
          /\ fll_range_ok
          /\ clock_mode_name = "Fbe"
          /\ handle' = "Fbe"]_vars

(***************************************************************************)
(* Further properties of the I2C foreground and handler together.          *)
(***************************************************************************)
\* C19: a handler step taken while the interrupt source is enabled makes no
\* access through a pointer of a call that has ended: it neither reads or
\* writes that call's buffer nor stores to its completion flag.
C19_NoStaleAccess ==
    [][(EngineStep /\ c1.iicie /\ ~stale) => ~stale']_vars

\* C20: the foreground is never asleep in wfi with its completion flag
\* already set, a state it can leave only when a further interrupt is taken.
C20_NoSleepAfterDone ==
    ~(pc = "asleep" /\ DoneSet /\ ~stale)

\* A write/read call has enabled the interrupt source and its completion
\* flag has not been set yet.
Waiting ==
    /\ callNo >= 1
    /\ pc \in {"move", "check", "wfi", "asleep"}
    /\ fatal = "none"
    /\ ~flags[callNo]

\* C21: from the write of write/read that enables the interrupt source until
\* the completion flag is set, the interrupt-enable, module-enable and
\* master-mode bits of I2C0_C1 are all set, whatever control writes the call
\* and the handler have made in between.
C21_ControlBitsStay ==
    (Waiting /\ ~stale) => (c1.iicie /\ c1.iicen /\ c1.mst)

\* The place of a status in the order AddressSend, AddressSent, Run(0),
\* Run(1), ...
StatusRank(status) ==
    CASE status.tag = "AddressSend" -> 0
      [] status.tag = "AddressSent" -> 1
      [] status.tag = "Run"         -> 2 + status.v

\* C22: a handler step never moves the status of the transaction in the slot
\* back in the order AddressSend, AddressSent, Run(0), Run(1), ... (a Run
\* offset never decreases), and a Run offset never exceeds the length of the
\* transaction's buffer.
C22_StatusForward ==
    [][EngineStep =>
          /\ StatusRank(slot'.status) >= StatusRank(slot.status)
          /\ (slot'.status.tag = "Run" => slot'.status.v <= slot.len)]_vars

\* A write of two bytes whose offset has reached Run(2) from Run(1), and
\* which a further interrupt has left at Run(2).
C22_Witness ==
    /\ OwnTransaction("PrimaryTx")
    /\ slot.len = 2
    /\ slot.status = Run(2)
    /\ irqs = 5

\* A handler step of the waiting call's transaction with an empty buffer,
\* taken after the address byte was sent and with the acknowledge present.
EmptyBufferStep(mode) ==
    /\ EngineStep
    /\ OwnTransaction(mode)
    /\ slot.len = 0
    /\ slot.status.tag # "AddressSend"
    /\ ~s.rxak

\* C23: for a write and for a read with an empty buffer, the handler step
\* that finds the address acknowledged sets the completion flag, and neither
\* that step nor a later one transfers a data byte, changes the buffer or
\* raises a fatal error.
C23_EmptyBufferNoOp ==
    [][(EmptyBufferStep("PrimaryTx") \/ EmptyBufferStep("PrimaryRx")) =>
          /\ flags'[callNo]
          /\ fatal' = "none"
          /\ dLog' = dLog
          /\ buf' = buf]_vars

(***************************************************************************)
(* mcgoutclk, called on the generator over every value of the registers it *)
(* reads (frequencies in the unit of the result, MHz).                     *)
(***************************************************************************)
INTERAL_REFERENCE_CLOCK_FREQUENCY == 32768

\* 2_i32.pow(frdiv): the FRDIV field itself, whatever the crystal range.
fll_ref_divider == 2 ^ mc1.frdiv

\* The table of fll_factor over (DRST_DRS, DMX32).
fll_factor ==
    CASE mc4.drst_drs = 0 -> IF mc4.dmx32 THEN 732  ELSE 640
      [] mc4.drst_drs = 1 -> IF mc4.dmx32 THEN 1464 ELSE 1280
      [] mc4.drst_drs = 2 -> IF mc4.dmx32 THEN 2197 ELSE 1920
      [] mc4.drst_drs = 3 -> IF mc4.dmx32 THEN 2929 ELSE 2560

get_pll_frequency ==
    LET pair == get_pll_frequency_divider
    IN  (pair[1] * crystal) \div pair[2]

\* What a call of mcgoutclk that panicked leaves in ret.
ClkPanic == <<-1>>

\* mcgoutclk: the match on clock_mode_name(), which panics on register
\* values of no mode and never yields Stop.
mcgoutclk ==
    LET name == clock_mode_name
    IN  CASE name = "Fei" ->
               <<(INTERAL_REFERENCE_CLOCK_FREQUENCY * fll_factor) \div 1000000>>
          [] name = "Fee" ->
               <<(crystal \div fll_ref_divider) * fll_factor>>
          [] name \in {"Fbi", "Blpi"} ->
               <<INTERAL_REFERENCE_CLOCK_FREQUENCY \div 1000000>>
          [] name \in {"Fbe", "Pbe", "Blpe"} ->
               <<crystal>>
          [] name = "Pee" ->
               <<get_pll_frequency>>
          [] name = "Stop" ->
               <<0>>
          [] OTHER -> ClkPanic

\* Inputs of the model: the values of the register fields mcgoutclk reads.
ClkVdivs  == {0, 3, 31}
ClkPrdivs == {0, 5, 24}

InitClk ==
    /\ InitI2CVars
    /\ ffTarget = 0 /\ ffBus = 0 /\ ffOut = <<0, 0>>
    /\ CallIdle /\ DelayNew(<<0, 1>>, 1)
    /\ mc1 \in [clks : 0..3, frdiv : 0..7, irefs : BOOLEAN]
    /\ mc2 \in [range0 : 0..1, erefs0 : {TRUE}, lp : BOOLEAN]
    /\ mc4 \in [drst_drs : 0..3, dmx32 : BOOLEAN]
    /\ mc5 \in [prdiv0 : ClkPrdivs]
    /\ mc6 \in [plls : BOOLEAN, vdiv0 : ClkVdivs]
    /\ mc7 = McgC7Reset
    /\ ms = StatusOf
    /\ crystal \in Crystals
    /\ handle = "Mcg" /\ todo = <<>> /\ mpc = "idle" /\ mfatal = "none"
    /\ rawOps = FALSE /\ lastMode = "Fei"

\* let mhz = mcg.mcgoutclk();
CallMcgoutclk ==
    /\ UNCHANGED <<i2cVars, ffVars, mcgVars, delayVars>>
    /\ ret = RetNone
    /\ ret' = mcgoutclk
    /\ UNCHANGED <<argA, argB>>

NextClk == CallMcgoutclk

SpecClk == InitClk /\ [][NextClk]_vars

\* The whole MHz in a frequency of num / den MHz.
WholeMhz(num, den) == num \div den

\* C24: whenever mcgoutclk has returned, the value is, in MHz, the internal
\* reference (32768 Hz) times the FLL factor in FEI, the crystal divided by
\* the reference divider and multiplied by the FLL factor in FEE, the
\* internal frequency, not zero, in FBI and BLPI, the crystal frequency in
\* FBE, PBE and BLPE, and crystal * numerator / denominator of the PLL
\* divider pair in PEE.
C24_McgoutclkPerMode ==
    (ret # RetNone /\ ret # ClkPanic) =>
        LET name == clock_mode_name
            pair == get_pll_frequency_divider
        IN  CASE name = "Fei" ->
                   ret[1] = WholeMhz(INTERAL_REFERENCE_CLOCK_FREQUENCY * fll_factor, 1000000)
              [] name = "Fee" ->
                   ret[1] = WholeMhz(crystal * fll_factor, fll_ref_divider)
              [] name \in {"Fbi", "Blpi"} ->
                   ret[1] > 0
              [] name \in {"Fbe", "Pbe", "Blpe"} ->
                   ret[1] = crystal
              [] name = "Pee" ->
                   ret[1] = WholeMhz(crystal * pair[1], pair[2])

(***************************************************************************)
(* set_external_crystal_frequency_divider called on every divider up to    *)
(* the largest the match names and one beyond, under each value of the     *)
(* range and oscillator-select fields, and                                 *)
(* get_external_crystal_frequency_divider called after it.                 *)
(***************************************************************************)
DividerArgs == 0..1537

\* What ret holds when set_external_crystal_frequency_divider panicked.
DividerPanic == <<0>>

InitDivider ==
    /\ InitI2CVars
    /\ ffTarget = 0 /\ ffBus = 0 /\ ffOut = <<0, 0>>
    /\ DelayNew(<<0, 1>>, 1)
    /\ argA \in DividerArgs /\ argB = 0 /\ ret = RetNone
    /\ mc1 = McgC1Reset
    /\ mc2 \in [range0 : 0..1, erefs0 : {FALSE}, lp : {FALSE}]
    /\ mc4 = McgC4Reset /\ mc5 = McgC5Reset /\ mc6 = McgC6Reset
    /\ mc7 \in [oscsel : BOOLEAN]
    /\ ms = McgSReset
    /\ crystal = 16
    /\ handle = "Mcg" /\ todo = <<>> /\ mpc = "idle" /\ mfatal = "none"
    /\ rawOps = FALSE /\ lastMode = "Fei"

\* mcg.set_external_crystal_frequency_divider(d);
\* mcg.get_external_crystal_frequency_divider()
CallSetDivider ==
    /\ UNCHANGED <<i2cVars, ffVars, delayVars>>
    /\ ret = RetNone
    /\ LET frdiv == FrdivOf(rtc_or_low_freq_crystal, argA)
       IN  IF frdiv = -1
           THEN mfatal' = "Invalid external clock divider" /\ mc1' = mc1
           ELSE mc1' = [McgC1Reset EXCEPT !.frdiv = frdiv] /\ mfatal' = mfatal
    /\ UNCHANGED <<argA, argB, mc2, mc4, mc5, mc6, mc7, ms, crystal, handle, todo, mpc,
                   rawOps, lastMode>>
    /\ ret' = (IF mfatal' = "none" THEN <<get_external_crystal_frequency_divider'>>
                                   ELSE DividerPanic)

NextDivider == CallSetDivider

SpecDivider == InitDivider /\ [][NextDivider]_vars

\* The eight divisors get_external_crystal_frequency_divider decodes the
\* FRDIV field to under each value of the low-frequency-or-RTC flag.
LegalDividers(low) ==
    IF low THEN {1, 2, 4, 8, 16, 32, 64, 128}
           ELSE {32, 64, 128, 256, 512, 1024, 1280, 1536}

\* C25: under either value of the low-frequency-or-RTC flag,
\* set_external_crystal_frequency_divider(d) panics for every d outside the
\* eight divisors legal under the flag, and for a legal d
\* get_external_crystal_frequency_divider called after it returns d.
C25_DividerRoundTrip ==
    ret # RetNone =>
        IF argA \in LegalDividers(rtc_or_low_freq_crystal)
        THEN mfatal = "none" /\ ret = <<argA>>
        ELSE mfatal # "none" /\ ret = DividerPanic

====
